---- MODULE Spec2Model ----
(***************************************************************************)
(* Model of the product API of src/server.js: an Express application that  *)
(* keeps an in-memory array of products and serves list / stats / get-one  *)
(* / create / update / delete under /api/products.                         *)
(*                                                                         *)
(* JavaScript values are records [t, b, n, s] (type tag, boolean payload,  *)
(* number payload, string payload).  Strings are kept as atoms in the      *)
(* state; the string operations of the code (toLowerCase, includes,        *)
(* parseInt) work on their characters, given by Chars.                     *)
(***************************************************************************)
EXTENDS Integers, Sequences, FiniteSets, TLC

VARIABLES
  products,  \* the products array
  pc,        \* "idle", or "responded" while a request's response stands
  req,       \* the request served last
  res,       \* its response
  pre,       \* the products array as that request found it
  issued,    \* the identifiers uuidv4 has returned
  ever,      \* the ids of all records in the store at any time before req
  deleted,   \* the ids whose DELETE succeeded
  writes     \* the number of successful create/update/delete requests

vars == <<products, pc, req, res, pre, issued, ever, deleted, writes>>

\* Bound on the number of successful create/update/delete requests.
MaxWrites == 2

-----------------------------------------------------------------------------
(* JavaScript values *)

Undefined == [t |-> "undefined", b |-> FALSE, n |-> 0, s |-> ""]
Null == [t |-> "null", b |-> FALSE, n |-> 0, s |-> ""]
Bool(x) == [t |-> "boolean", b |-> x, n |-> 0, s |-> ""]
Num(x) == [t |-> "number", b |-> FALSE, n |-> x, s |-> ""]
Str(x) == [t |-> "string", b |-> FALSE, n |-> 0, s |-> x]

\* ToBoolean: what `!v`, `v || w` and `if (v)` test.
Truthy(v) ==
  CASE v.t = "undefined" -> FALSE
    [] v.t = "null" -> FALSE
    [] v.t = "boolean" -> v.b
    [] v.t = "number" -> v.n # 0
    [] v.t = "string" -> v.s # ""

\* a || b
Or(a, b) == IF Truthy(a) THEN a ELSE b

-----------------------------------------------------------------------------
(* Strings: their characters, and the string functions the code calls *)

Chars(s) ==
  CASE s = "" -> <<>>
    [] s = "Laptop" -> <<"L", "a", "p", "t", "o", "p">>
    [] s = "Smartphone" -> <<"S", "m", "a", "r", "t", "p", "h", "o", "n", "e">>
    [] s = "Coffee Maker" -> <<"C", "o", "f", "f", "e", "e", " ", "M", "a", "k", "e", "r">>
    [] s = "Kettle" -> <<"K", "e", "t", "t", "l", "e">>
    [] s = "electronics" -> <<"e", "l", "e", "c", "t", "r", "o", "n", "i", "c", "s">>
    [] s = "ELECTRONICS" -> <<"E", "L", "E", "C", "T", "R", "O", "N", "I", "C", "S">>
    [] s = "kitchen" -> <<"k", "i", "t", "c", "h", "e", "n">>
    [] s = "Kitchen" -> <<"K", "i", "t", "c", "h", "e", "n">>
    [] s = "uncategorized" -> <<"u", "n", "c", "a", "t", "e", "g", "o", "r", "i", "z", "e", "d">>
    [] s = "PHONE" -> <<"P", "H", "O", "N", "E">>
    [] s = "E" -> <<"E">>
    [] s = "0" -> <<"0">>
    [] s = "1" -> <<"1">>
    [] s = "2" -> <<"2">>
    [] s = "3" -> <<"3">>
    [] s = "-1" -> <<"-", "1">>
    [] s = "-2" -> <<"-", "2">>
    [] s = " 2x" -> <<" ", "2", "x">>
    [] s = "abc" -> <<"a", "b", "c">>

Upper == <<"A", "B", "C", "D", "E", "F", "G", "H", "I", "J", "K", "L", "M",
           "N", "O", "P", "Q", "R", "S", "T", "U", "V", "W", "X", "Y", "Z">>

Lower == <<"a", "b", "c", "d", "e", "f", "g", "h", "i", "j", "k", "l", "m",
           "n", "o", "p", "q", "r", "s", "t", "u", "v", "w", "x", "y", "z">>

LowerChar(c) ==
  IF \E i \in 1..Len(Upper) : Upper[i] = c
  THEN Lower[CHOOSE i \in 1..Len(Upper) : Upper[i] = c]
  ELSE c

\* String.prototype.toLowerCase, on the characters of a string value.
LowerChars(cs) == [i \in 1..Len(cs) |-> LowerChar(cs[i])]

toLowerCase(v) == LowerChars(Chars(v.s))

\* String.prototype.includes, on characters.
includes(hay, needle) ==
  \E i \in 0..(Len(hay) - Len(needle)) :
    \A k \in 1..Len(needle) : hay[i + k] = needle[k]

Digits == <<"0", "1", "2", "3", "4", "5", "6", "7", "8", "9">>

IsDigit(c) == \E i \in 1..Len(Digits) : Digits[i] = c

DigitVal(c) == (CHOOSE i \in 1..Len(Digits) : Digits[i] = c) - 1

\* index of the first character of cs that is not a space, Len(cs) + 1 if none
FirstNonSpace(cs) ==
  CHOOSE i \in 1..(Len(cs) + 1) :
    /\ i = Len(cs) + 1 \/ cs[i] # " "
    /\ \A j \in 1..(i - 1) : cs[j] = " "

\* index of the last character of the run of digits that starts at from
\* (from - 1 if cs has no digit there)
DigitsEnd(cs, from) ==
  CHOOSE j \in (from - 1)..Len(cs) :
    /\ \A k \in from..j : IsDigit(cs[k])
    /\ j = Len(cs) \/ ~IsDigit(cs[j + 1])

\* the decimal number written by cs[from..to]
DecimalValue(cs, from, to) ==
  LET val[k \in (from - 1)..to] ==
        IF k = from - 1 THEN 0 ELSE val[k - 1] * 10 + DigitVal(cs[k])
  IN val[to]

NaN == [nan |-> TRUE, v |-> 0]

\* parseInt on the characters of a string: leading white space is skipped,
\* a sign is read, then the longest run of digits; no digit at all gives NaN.
parseIntChars(cs, s) ==
  LET signed == s <= Len(cs) /\ cs[s] \in {"-", "+"}
      from == IF signed THEN s + 1 ELSE s
      to == DigitsEnd(cs, from)
  IN IF to < from THEN NaN
     ELSE [nan |-> FALSE,
           v |-> IF signed /\ cs[s] = "-"
                 THEN 0 - DecimalValue(cs, from, to)
                 ELSE DecimalValue(cs, from, to)]

parseIntString(cs) == parseIntChars(cs, FirstNonSpace(cs))

\* parseInt(v): [nan, v].  A value that is no string is first converted to
\* one ("undefined", "null", ...), which holds no number.
parseInt(v) == IF v.t = "string" THEN parseIntString(Chars(v.s)) ELSE NaN

\* parseInt(v) || d
NumberOr(p, d) == IF p.nan \/ p.v = 0 THEN d ELSE p.v

parseIntOr(v, d) == NumberOr(parseInt(v), d)

\* Math.ceil(a / b) for integers a >= 0 and b # 0
ceilDiv(a, b) ==
  IF b > 0 THEN (a + b - 1) \div b ELSE 0 - (a \div (0 - b))

\* Array.prototype.slice(start, end)
slice(arr, start, end) ==
  LET len == Len(arr)
      from == IF start < 0 THEN (IF len + start < 0 THEN 0 ELSE len + start)
              ELSE (IF start > len THEN len ELSE start)
      to == IF end < 0 THEN (IF len + end < 0 THEN 0 ELSE len + end)
            ELSE (IF end > len THEN len ELSE end)
  IN IF from < to THEN SubSeq(arr, from + 1, to) ELSE <<>>

-----------------------------------------------------------------------------
(* Error classes *)

Err(name, message, statusCode) ==
  [name |-> name, message |-> message, statusCode |-> statusCode]

NoError == Err("", "", 0)

NotFoundError(message) == Err("NotFoundError", message, 404)

ValidationError(message) == Err("ValidationError", message, 400)

AuthError(message) == Err("AuthError", message, 401)

\* What a call of a method on a value that has none throws; no statusCode.
TypeError == Err("TypeError", "toLowerCase is not a function", 0)

\* What bodyParser.json() passes on for a body that is not JSON.
SyntaxError == Err("SyntaxError", "Unexpected token in JSON", 400)

-----------------------------------------------------------------------------
(* Products, requests, responses *)

Product(id, name, description, price, category, inStock) ==
  [id |-> id, name |-> name, description |-> description, price |-> price,
   category |-> category, inStock |-> inStock]

NoProduct == Product("", Undefined, Undefined, Undefined, Undefined, Undefined)

SeedProducts ==
  << Product("1", Str("Laptop"), Str("High-performance laptop with 16GB RAM"),
             Num(1200), Str("electronics"), Bool(TRUE)),
     Product("2", Str("Smartphone"), Str("Latest model with 128GB storage"),
             Num(800), Str("electronics"), Bool(TRUE)),
     Product("3", Str("Coffee Maker"), Str("Programmable coffee maker with timer"),
             Num(50), Str("kitchen"), Bool(FALSE)) >>

Ids(store) == {store[i].id : i \in 1..Len(store)}

Body(name, description, price, category, inStock) ==
  [name |-> name, description |-> description, price |-> price,
   category |-> category, inStock |-> inStock]

EmptyBody == Body(Undefined, Undefined, Undefined, Undefined, Undefined)

Query(category, search, page, limit) ==
  [category |-> category, search |-> search, page |-> page, limit |-> limit]

EmptyQuery == Query(Undefined, Undefined, Undefined, Undefined)

Request(method, route, key, id, body, malformed, query) ==
  [method |-> method, route |-> route, key |-> key, id |-> id, body |-> body,
   malformed |-> malformed, query |-> query]

NoRequest == Request("", "", Undefined, "", EmptyBody, FALSE, EmptyQuery)

NoStats == [totalProducts |-> 0, inStock |-> 0, categories |-> {}]

\* A response: the status, the kind of body ("json", "envelope", "html",
\* "text", "empty"), and the body's content for that kind.
Response(status, kind) ==
  [status |-> status, kind |-> kind, error |-> NoError, product |-> NoProduct,
   total |-> 0, page |-> 0, pages |-> 0, products |-> <<>>, stats |-> NoStats]

NoResponse == Response(0, "")

-----------------------------------------------------------------------------
(* Middleware *)

authenticate(r) ==
  IF ~Truthy(r.key) \/ r.key # Str("secret-api-key")
  THEN AuthError("Invalid or missing API key")
  ELSE NoError

\* validateProduct without its test of the price's sign
validateProduct_typeOnly(r) ==
  IF r.method \in {"POST", "PUT"}
  THEN IF ~Truthy(r.body.name) \/ ~Truthy(r.body.price)
       THEN ValidationError("Name and price are required")
       ELSE IF r.body.price.t # "number"
            THEN ValidationError("Price must be a positive number")
            ELSE NoError
  ELSE NoError

validateProduct(r) ==
  IF r.method \in {"POST", "PUT"}
  THEN IF ~Truthy(r.body.name) \/ ~Truthy(r.body.price)
       THEN ValidationError("Name and price are required")
       ELSE IF r.body.price.t # "number" \/ r.body.price.n <= 0
            THEN ValidationError("Price must be a positive number")
            ELSE NoError
  ELSE NoError

\* The error-handling middleware: the JSON envelope.
errorHandler(err) ==
  LET statusCode == IF err.statusCode # 0 THEN err.statusCode ELSE 500
  IN [Response(statusCode, "envelope") EXCEPT
        !.error = Err(err.name, err.message, statusCode)]

\* Express's own last resort, for an error no error-handling middleware
\* takes: the error's status code and an HTML page.
finalhandler(err) ==
  LET statusCode == IF err.statusCode >= 400 /\ err.statusCode <= 599
                    THEN err.statusCode ELSE 500
  IN Response(statusCode, "html")

Layer(kind, name, chain) == [kind |-> kind, name |-> name, chain |-> chain]

\* The application's layers in the order server.js registers them.  The
\* chain of a route is the middleware named in its registration, which runs
\* before the handler.
Stack ==
  << Layer("use", "logger", <<>>),
     Layer("use", "bodyParser", <<>>),
     Layer("error", "errorHandler", <<>>),
     Layer("route", "root", <<>>),
     Layer("route", "list", <<>>),
     Layer("route", "stats", <<>>),
     Layer("route", "one", <<>>),
     Layer("route", "create", <<"validateProduct">>),
     Layer("route", "update", <<"validateProduct">>),
     Layer("route", "delete", <<>>) >>

LayerIndex(name) == CHOOSE i \in 1..Len(Stack) : Stack[i].name = name

\* next(err) from layer i: Express goes on down the stack from i and gives
\* the error to the first error-handling layer it meets, else to finalhandler.
Respond(err, i) ==
  IF \E j \in (i + 1)..Len(Stack) : Stack[j].kind = "error"
  THEN errorHandler(err)
  ELSE finalhandler(err)

RunMiddleware(name, r) ==
  CASE name = "authenticate" -> authenticate(r)
    [] name = "validateProduct" -> validateProduct(r)

RECURSIVE ChainError(_, _)
\* the first error a route's middleware chain throws, NoError if none
ChainError(chain, r) ==
  IF chain = <<>> THEN NoError
  ELSE LET e == RunMiddleware(Head(chain), r)
       IN IF e # NoError THEN e ELSE ChainError(Tail(chain), r)

-----------------------------------------------------------------------------
(* Route handlers: [threw, store, res] *)

Outcome(threw, store, response) ==
  [threw |-> threw, store |-> store, res |-> response]

Find(store, id) ==
  IF \E i \in 1..Len(store) : store[i].id = id
  THEN CHOOSE i \in 1..Len(store) :
         store[i].id = id /\ \A j \in 1..(i - 1) : store[j].id # id
  ELSE 0

CategoryMatches(p, q) == toLowerCase(p.category) = toLowerCase(q)

NameMatches(p, q) == includes(toLowerCase(p.name), toLowerCase(q))

rootHandler(r, store) == Outcome(NoError, store, Response(200, "text"))

\* filteredProducts after the category filter
byCategory(store, q) ==
  IF Truthy(q.category)
  THEN SelectSeq(store, LAMBDA p :
         p.category.t = "string" /\ CategoryMatches(p, q.category))
  ELSE store

\* filteredProducts after the search filter
bySearch(list, q) ==
  IF Truthy(q.search)
  THEN SelectSeq(list, LAMBDA p : p.name.t = "string" /\ NameMatches(p, q.search))
  ELSE list

\* p.category.toLowerCase() of a category that is not a string throws
categoryThrows(store, q) ==
  Truthy(q.category) /\ \E i \in 1..Len(store) : store[i].category.t # "string"

\* p.name.toLowerCase() of a name that is not a string throws
searchThrows(list, q) ==
  Truthy(q.search) /\ \E i \in 1..Len(list) : list[i].name.t # "string"

paginate(filteredProducts, page, limit) ==
  [Response(200, "json") EXCEPT
     !.total = Len(filteredProducts),
     !.page = page,
     !.pages = ceilDiv(Len(filteredProducts), limit),
     !.products = slice(filteredProducts, (page - 1) * limit, page * limit)]

listFiltered(q, store, list) ==
  IF categoryThrows(store, q) \/ searchThrows(list, q)
  THEN Outcome(TypeError, store, NoResponse)
  ELSE Outcome(NoError, store,
         paginate(bySearch(list, q), parseIntOr(q.page, 1), parseIntOr(q.limit, 10)))

listHandler(r, store) == listFiltered(r.query, store, byCategory(store, r.query))

statsHandler(r, store) ==
  LET cats == {store[i].category : i \in 1..Len(store)}
      count(c) == Cardinality({i \in 1..Len(store) : store[i].category = c})
  IN Outcome(NoError, store,
       [Response(200, "json") EXCEPT
          !.stats = [totalProducts |-> Len(store),
                     inStock |-> Cardinality({i \in 1..Len(store) :
                                                Truthy(store[i].inStock)}),
                     categories |-> {[category |-> c, count |-> count(c)] :
                                       c \in cats}]])

oneFound(store, i) ==
  IF i = 0
  THEN Outcome(NotFoundError("Product not found"), store, NoResponse)
  ELSE Outcome(NoError, store, [Response(200, "json") EXCEPT !.product = store[i]])

oneHandler(r, store) == oneFound(store, Find(store, r.id))

created(store, newProduct) ==
  Outcome(NoError, Append(store, newProduct),
          [Response(201, "json") EXCEPT !.product = newProduct])

\* createHandler numbering the new record by the length of the array
createHandler_lengthId(r, store, uuid) ==
  created(store,
          Product(ToString(Len(store) + 1),
                  r.body.name,
                  Or(r.body.description, Str("")),
                  r.body.price,
                  Or(r.body.category, Str("uncategorized")),
                  IF r.body.inStock # Undefined THEN r.body.inStock ELSE Bool(TRUE)))

createHandler(r, store, uuid) ==
  created(store,
          Product(uuid,
                  r.body.name,
                  Or(r.body.description, Str("")),
                  r.body.price,
                  Or(r.body.category, Str("uncategorized")),
                  IF r.body.inStock # Undefined THEN r.body.inStock ELSE Bool(TRUE)))

\* assign with inStock merged by || like the other fields
assign_orInStock(product, body) ==
  [product EXCEPT
     !.name = Or(body.name, product.name),
     !.description = Or(body.description, product.description),
     !.price = Or(body.price, product.price),
     !.category = Or(body.category, product.category),
     !.inStock = Or(body.inStock, product.inStock)]

\* Object.assign(product, {...})
assign(product, body) ==
  [product EXCEPT
     !.name = Or(body.name, product.name),
     !.description = Or(body.description, product.description),
     !.price = Or(body.price, product.price),
     !.category = Or(body.category, product.category),
     !.inStock = IF body.inStock # Undefined THEN body.inStock ELSE product.inStock]

updated(store, i, product) ==
  Outcome(NoError, [store EXCEPT ![i] = product],
          [Response(200, "json") EXCEPT !.product = product])

updateFound(r, store, i) ==
  IF i = 0
  THEN Outcome(NotFoundError("Product not found"), store, NoResponse)
  ELSE updated(store, i, assign(store[i], r.body))

updateHandler(r, store) == updateFound(r, store, Find(store, r.id))

\* deleteHandler that filters without assigning the result to products
deleteHandler_noAssign(r, store) ==
  IF ~(\E i \in 1..Len(store) : store[i].id = r.id)
  THEN Outcome(NotFoundError("Product not found"), store, NoResponse)
  ELSE Outcome(NoError, store, Response(204, "empty"))

deleteHandler(r, store) ==
  IF ~(\E i \in 1..Len(store) : store[i].id = r.id)
  THEN Outcome(NotFoundError("Product not found"), store, NoResponse)
  ELSE Outcome(NoError, SelectSeq(store, LAMBDA p : p.id # r.id),
               Response(204, "empty"))

Handler(r, store, uuid) ==
  CASE r.route = "root" -> rootHandler(r, store)
    [] r.route = "list" -> listHandler(r, store)
    [] r.route = "stats" -> statsHandler(r, store)
    [] r.route = "one" -> oneHandler(r, store)
    [] r.route = "create" -> createHandler(r, store, uuid)
    [] r.route = "update" -> updateHandler(r, store)
    [] r.route = "delete" -> deleteHandler(r, store)

\* Routed with the validator run after the handler instead of before it
Routed_handlerFirst(store, i, e, o) ==
  IF o.threw # NoError
  THEN [store |-> store, res |-> Respond(o.threw, i)]
  ELSE IF e # NoError
       THEN [store |-> o.store, res |-> Respond(e, i)]
       ELSE [store |-> o.store, res |-> o.res]

\* What becomes of a request at route layer i: e is the first error of the
\* route's middleware chain, o the handler's outcome (the handler runs only
\* when the chain passed; what it throws it hands to next(err)).
Routed(store, i, e, o) ==
  IF e # NoError
  THEN [store |-> store, res |-> Respond(e, i)]
  ELSE IF o.threw # NoError
       THEN [store |-> store, res |-> Respond(o.threw, i)]
       ELSE [store |-> o.store, res |-> o.res]

Route(r, store, uuid, i) ==
  Routed(store, i, ChainError(Stack[i].chain, r), Handler(r, store, uuid))

\* One request through the application: logger, body parser, the route's
\* middleware chain, its handler; an error at any layer goes to Respond.
Serve(r, store, uuid) ==
  IF r.malformed
  THEN [store |-> store, res |-> Respond(SyntaxError, LayerIndex("bodyParser"))]
  ELSE Route(r, store, uuid, LayerIndex(r.route))

-----------------------------------------------------------------------------
(* The identifiers uuidv4 hands out *)

Uuid(i) == "uuid-" \o ToString(i)

UuidPool == {Uuid(i) : i \in 1..MaxWrites}

\* uuidv4(): some version-4 UUID; the library's contract is that it is none
\* of those it gave before.
uuidv4(given) == UuidPool \ given

SeedIds == Ids(SeedProducts)

-----------------------------------------------------------------------------
(* Inputs *)

Keys == {Undefined, Str("wrong-key"), Str("secret-api-key")}

ParamIds == SeedIds \cup {"999"} \cup UuidPool

Bodies ==
  { EmptyBody,
    Body(Undefined, Undefined, Num(750), Undefined, Undefined),
    Body(Str("Kettle"), Undefined, Num(0), Undefined, Undefined),
    Body(Str("Kettle"), Undefined, Num(0 - 5), Undefined, Undefined),
    Body(Str("Kettle"), Undefined, Str("3"), Undefined, Undefined),
    Body(Str(""), Undefined, Num(750), Undefined, Undefined),
    Body(Str("Kettle"), Str(""), Num(750), Str(""), Bool(FALSE)),
    Body(Str("Kettle"), Undefined, Num(30), Undefined, Undefined),
    Body(Str("Kettle"), Str("Boils water"), Num(750), Str("Kitchen"), Bool(TRUE)),
    Body(Num(5), Undefined, Num(1), Null, Undefined) }

Queries ==
  { EmptyQuery,
    Query(Str("electronics"), Undefined, Str("1"), Str("1")),
    Query(Str("ELECTRONICS"), Undefined, Str("2"), Str("1")),
    Query(Str("ELECTRONICS"), Str("PHONE"), Undefined, Undefined),
    Query(Str("kitchen"), Str("E"), Str("1"), Str(" 2x")),
    Query(Undefined, Str("PHONE"), Undefined, Undefined),
    Query(Undefined, Str("E"), Str("2"), Str("1")),
    Query(Undefined, Undefined, Str("0"), Str("0")),
    Query(Undefined, Undefined, Str("3"), Str(" 2x")),
    Query(Undefined, Undefined, Str("-1"), Str("2")),
    Query(Undefined, Undefined, Undefined, Str("-1")),
    Query(Undefined, Undefined, Str("2"), Str("-2")),
    Query(Undefined, Undefined, Str("abc"), Str("abc")) }

-----------------------------------------------------------------------------
(* State machine *)

Init ==
  /\ products = SeedProducts
  /\ pre = SeedProducts
  /\ req = NoRequest
  /\ res = NoResponse
  /\ issued = {}
  /\ ever = SeedIds
  /\ deleted = {}
  /\ writes = 0
  /\ pc = "idle"

Succeeded(r, response) ==
  \/ r.route = "create" /\ response.status = 201
  \/ r.route = "update" /\ response.status = 200
  \/ r.route = "delete" /\ response.status = 204

\* The state after request r was served with outcome out.
Served(r, uuid, out, ok) ==
  /\ ok => writes < MaxWrites
  /\ pc' = "responded"
  /\ products' = out.store
  /\ pre' = products
  /\ req' = r
  /\ res' = out.res
  /\ issued' = IF ok /\ r.route = "create" THEN issued \cup {uuid} ELSE issued
  /\ deleted' = IF ok /\ r.route = "delete" THEN deleted \cup {r.id} ELSE deleted
  /\ writes' = IF ok THEN writes + 1 ELSE writes
  /\ ever' = ever

Settle(r, uuid, out) == Served(r, uuid, out, Succeeded(r, out.res))

\* The application serves request r, uuid being what uuidv4() returns if
\* the handler calls it.
Step(r, uuid) == Settle(r, uuid, Serve(r, products, uuid))

Root ==
  /\ pc = "idle"
  /\ \E k \in Keys :
       Step(Request("GET", "root", k, "", EmptyBody, FALSE, EmptyQuery), "")

List ==
  /\ pc = "idle"
  /\ \E k \in Keys, q \in Queries :
       Step(Request("GET", "list", k, "", EmptyBody, FALSE, q), "")

Stats ==
  /\ pc = "idle"
  /\ \E k \in Keys :
       Step(Request("GET", "stats", k, "", EmptyBody, FALSE, EmptyQuery), "")

GetOne ==
  /\ pc = "idle"
  /\ \E k \in Keys, id \in ParamIds :
       Step(Request("GET", "one", k, id, EmptyBody, FALSE, EmptyQuery), "")

\* A POST carries a JSON body, or a body that is not JSON.
CreateRequests ==
  {Request("POST", "create", k, "", b, FALSE, EmptyQuery) : k \in Keys, b \in Bodies}
    \cup {Request("POST", "create", k, "", EmptyBody, TRUE, EmptyQuery) : k \in Keys}

Create ==
  /\ pc = "idle"
  /\ \E r \in CreateRequests, u \in uuidv4(issued) : Step(r, u)

Update ==
  /\ pc = "idle"
  /\ \E k \in Keys, id \in ParamIds, b \in Bodies :
       Step(Request("PUT", "update", k, id, b, FALSE, EmptyQuery), "")

Delete ==
  /\ pc = "idle"
  /\ \E k \in Keys, id \in ParamIds :
       Step(Request("DELETE", "delete", k, id, EmptyBody, FALSE, EmptyQuery), "")

\* The response has been written: the request and response objects are
\* dropped and the process is free to take the next request.
Finish ==
  /\ pc = "responded"
  /\ pc' = "idle"
  /\ req' = NoRequest
  /\ res' = NoResponse
  /\ pre' = products
  /\ ever' = ever \cup Ids(products)
  /\ UNCHANGED <<products, issued, deleted, writes>>

Next ==
  \/ Root
  \/ List
  \/ Stats
  \/ GetOne
  \/ Create
  \/ Update
  \/ Delete
  \/ Finish

Spec == Init /\ [][Next]_vars

-----------------------------------------------------------------------------
(* Vocabulary of the properties *)

Responded == pc = "responded"

\* the x-api-key header of r is missing or is not the configured secret
BadKey(r) == r.key = Undefined \/ r.key # Str("secret-api-key")

\* the error the validator or the handler of r raises on store, NoError if none
Raised(r, store) ==
  IF ChainError(Stack[LayerIndex(r.route)].chain, r) # NoError
  THEN ChainError(Stack[LayerIndex(r.route)].chain, r)
  ELSE Handler(r, store, "").threw

\* price is a number strictly greater than zero
PositiveNumber(price) == price.t = "number" /\ price.n > 0

\* record p has category q and a name containing s, both case-insensitively
\* (a filter that is not given lets every record through)
Matches(p, q) ==
  /\ Truthy(q.category) =>
       /\ p.category.t = "string"
       /\ LowerChars(Chars(p.category.s)) = LowerChars(Chars(q.category.s))
  /\ Truthy(q.search) =>
       /\ p.name.t = "string"
       /\ includes(LowerChars(Chars(p.name.s)), LowerChars(Chars(q.search.s)))

\* the records of store that match q, in the store's order
Expected(store, q) == SelectSeq(store, LAMBDA p : Matches(p, q))

\* store without its i-th record
Without(store, i) == SubSeq(store, 1, i - 1) \o SubSeq(store, i + 1, Len(store))

UniqueIds(store) ==
  \A i, j \in 1..Len(store) : i # j => store[i].id # store[j].id

-----------------------------------------------------------------------------
(* Properties *)

\* C1: every request to an /api/products route whose x-api-key header is
\* missing or wrong is answered with 401 and leaves the product store as it
\* was.
C1_BadKeyIs401 ==
  (Responded /\ req.route # "root" /\ BadKey(req))
    => (res.status = 401 /\ products = pre)

\* C2: every ValidationError, NotFoundError or AuthError raised by a
\* validator or a route handler is answered with the JSON envelope
\* {error: {name, message, status}} under the error's status code; DELETE of
\* an id that is not in the store gives 404 with the NotFoundError envelope.
C2_ErrorsGetEnvelope ==
  /\ (Responded /\ ~req.malformed /\
      Raised(req, pre).name \in {"ValidationError", "NotFoundError", "AuthError"})
       => /\ res.kind = "envelope"
          /\ res.status = Raised(req, pre).statusCode
          /\ res.error = Raised(req, pre)
  /\ (Responded /\ req.route = "delete" /\ req.id \notin Ids(pre))
       => /\ res.status = 404
          /\ res.kind = "envelope"
          /\ res.error = Err("NotFoundError", "Product not found", 404)

\* C3: a PUT on an existing id whose body carries a valid positive price and
\* no name succeeds with 200; the returned and stored record has the new
\* price and its original name, description and category.
C3_PriceOnlyPut ==
  (Responded /\ req.route = "update" /\ ~req.malformed /\ req.id \in Ids(pre) /\
   req.body.name = Undefined /\ req.body.description = Undefined /\
   req.body.category = Undefined /\ PositiveNumber(req.body.price))
    => /\ res.status = 200
       /\ \E i \in 1..Len(pre) :
            /\ pre[i].id = req.id
            /\ Len(products) = Len(pre)
            /\ products[i] = res.product
            /\ res.product.price = req.body.price
            /\ res.product.name = pre[i].name
            /\ res.product.description = pre[i].description
            /\ res.product.category = pre[i].category

\* C4: no two records of the store ever have the same id, and the id a
\* successful create returns is the id of no record that was in the store
\* at any time before it.
C4_UniqueIds ==
  /\ UniqueIds(products)
  /\ (Responded /\ req.route = "create" /\ res.status = 201)
       => /\ res.product.id \notin ever
          /\ res.product.id \in Ids(products)

C4_Witness ==
  /\ Responded /\ req.route = "create" /\ res.status = 201
  /\ deleted # {} /\ writes = MaxWrites

\* C5: a list request never errors, whatever page and limit it carries;
\* total is the number of records left after filtering, pages is
\* ceil(total / limit), products holds at most limit records, and a page
\* greater than pages gives no products.
C5_Pagination ==
  (Responded /\ req.route = "list")
    => /\ res.status = 200
       /\ res.total = Len(Expected(pre, req.query))
       /\ res.pages = ceilDiv(res.total, parseIntOr(req.query.limit, 10))
       /\ Len(res.products) <= parseIntOr(req.query.limit, 10)
       /\ res.page > res.pages => res.products = <<>>

\* C6: after a successful PUT, name, description, price and category of
\* the targeted record are the request's value where it is present and
\* truthy and the old value otherwise, inStock is the request's value
\* wherever it is present (false included) and the old value otherwise, and
\* the record's id and all other records are unchanged.
C6_PutFrame ==
  (Responded /\ req.route = "update" /\ res.status = 200)
    => /\ Len(products) = Len(pre)
       /\ \E i \in 1..Len(pre) :
            /\ pre[i].id = req.id
            /\ products[i].id = pre[i].id
            /\ products[i].name =
                 IF Truthy(req.body.name) THEN req.body.name ELSE pre[i].name
            /\ products[i].description =
                 IF Truthy(req.body.description)
                 THEN req.body.description ELSE pre[i].description
            /\ products[i].price =
                 IF Truthy(req.body.price) THEN req.body.price ELSE pre[i].price
            /\ products[i].category =
                 IF Truthy(req.body.category)
                 THEN req.body.category ELSE pre[i].category
            /\ products[i].inStock =
                 IF req.body.inStock # Undefined
                 THEN req.body.inStock ELSE pre[i].inStock
            /\ \A j \in 1..Len(pre) : j # i => products[j] = pre[j]

C6_Witness ==
  /\ Responded /\ req.route = "update" /\ res.status = 200
  /\ req.body.description = Str("") /\ req.body.inStock = Bool(FALSE)
  /\ \E i \in 1..Len(pre) :
       /\ pre[i].id = req.id
       /\ pre[i].inStock = Bool(TRUE)
       /\ pre[i].description # Str("")
       /\ products[i].description = pre[i].description
       /\ products[i].inStock = Bool(FALSE)

\* C7: once DELETE of an id has succeeded, every later GET of that id is
\* answered 404, whatever was created, updated or deleted since; a
\* successful DELETE removes exactly the record with that id and keeps the
\* others in their order.
C7_DeletedStaysGone ==
  /\ (Responded /\ req.route = "one" /\ req.id \in deleted) => res.status = 404
  /\ (Responded /\ req.route = "delete" /\ res.status = 204)
       => \E i \in 1..Len(pre) :
            /\ pre[i].id = req.id
            /\ products = Without(pre, i)

C7_Witness ==
  /\ Responded /\ req.route = "one" /\ req.id \in deleted /\ res.status = 404
  /\ issued # {} /\ writes = MaxWrites

\* C8: every record of the store has a price that is a number greater than
\* zero; a POST or PUT whose price is missing, zero, negative or not a
\* number is answered 400 and changes nothing.
C8_PositivePrices ==
  /\ \A i \in 1..Len(products) : PositiveNumber(products[i].price)
  /\ (Responded /\ req.route \in {"create", "update"} /\
      ~PositiveNumber(req.body.price))
       => (res.status = 400 /\ products = pre)

C8_Witness ==
  /\ Responded /\ req.route = "update" /\ req.id \in Ids(pre)
  /\ req.body.price = Num(0) /\ Truthy(req.body.name)
  /\ res.status = 400 /\ writes > 0

\* C9: the list request answers with exactly the stored records whose
\* category equals the query's category and whose name contains the query's
\* search, both case-insensitively, in insertion order, paginated after
\* both filters; on the three seeded records category=electronics, page=1,
\* limit=1 gives total 2, page 1, pages 2 and the first electronics record.
C9_Filter ==
  /\ (Responded /\ req.route = "list")
       => /\ res.status = 200
          /\ res.total = Len(Expected(pre, req.query))
          /\ res.products =
               slice(Expected(pre, req.query),
                     (res.page - 1) * parseIntOr(req.query.limit, 10),
                     res.page * parseIntOr(req.query.limit, 10))
  /\ (Responded /\ req.route = "list" /\ pre = SeedProducts /\
      req.query = Query(Str("electronics"), Undefined, Str("1"), Str("1")))
       => /\ res.total = 2 /\ res.page = 1 /\ res.pages = 2
          /\ res.products = <<SeedProducts[1]>>

\* C10: the store changes only by a successful create, update or delete:
\* every GET and every request answered with an error leaves the same
\* records, with the same values, in the same order.
C10_OnlyWritesChange ==
  (Responded /\ (req.method = "GET" \/ res.status >= 400)) => products = pre

C10_Witness ==
  /\ Responded /\ req.route = "update" /\ res.status = 404
  /\ PositiveNumber(req.body.price) /\ writes > 0 /\ products = pre

====
